---- MODULE Spec2Model ----
(***************************************************************************)
(* The Advanced Bullwhip Simulator (src/code.py): a wholesaler's weekly    *)
(* ordering game.  The state is Streamlit's st.session_state; one action   *)
(* is one handled event (a form submission, a click on the restart         *)
(* button), i.e. one run of the script that changes the session state.     *)
(*                                                                         *)
(* Normal draws are carried in tenths of a unit (116 stands for 11.6), so  *)
(* that the conversion of a draw to a weekly demand is modelled by what    *)
(* int() does.  Costs are dollars: every quantity is an integer and the    *)
(* two unit costs are 2.0 and 5.0, so the float arithmetic is exact.       *)
(***************************************************************************)
EXTENDS Integers, Sequences, FiniteSets, TLC

\* ---------------------------------------------------------------- configuration

TOTAL_ROUNDS == 20
INITIAL_INVENTORY == 40
HOLDING_COST == 2
BACKORDER_COST == 5
LEAD_TIME == 3

\* st.number_input("Order Quantity", min_value=0, max_value=1000, ...)
MIN_ORDER == 0
MAX_ORDER == 1000

\* initialize_game: order_pipeline = [12, 12, 12], last_order = 12
INITIAL_PIPELINE == <<12, 12, 12>>
INITIAL_LAST_ORDER == 12

\* ---------------------------------------------------------------- bounds

\* How many times in one playthrough the player types a quantity other than
\* the form's default (the previous order); the other rounds keep the default.
MaxOrderChanges == 2

\* The quantities the player types.
OrderSamples == {-5, 0, 30, 1000}

\* z-scores of the normal draws, in tenths of a standard deviation.
ZScores == {-50, 13}

\* ---------------------------------------------------------------- demand generator

\* random.gauss(mu, sigma) for a z-score z (tenths of sigma), in tenths of a unit.
gauss(mu, sigma, z) == 10 * mu + z * sigma

\* Variant: round() to the nearest integer instead of int().
PyRound(x10) == IF x10 >= 0 THEN (x10 + 5) \div 10 ELSE -((5 - x10) \div 10)

\* Python's int() of a float: truncation toward zero.  x10 is in tenths.
PyInt(x10) == IF x10 >= 0 THEN x10 \div 10 ELSE -((-x10) \div 10)

\* Variant: the floor at 0 is missing.
Max0Off(val) == val

\* max(0, val)
Max0(val) == IF val > 0 THEN val ELSE 0

\* The arguments of the week's random.gauss call: the phase picks them.
PhaseParams(week) ==
    IF week <= 5 THEN [mu |-> 12, sigma |-> 2]
    ELSE IF week <= 12 THEN [mu |-> 32, sigma |-> 5]
    ELSE [mu |-> 8, sigma |-> 2]

\* The draw of week `week`, for the z-score z.
PhaseDraw(week, z) == gauss(PhaseParams(week).mu, PhaseParams(week).sigma, z)

\* generate_phased_demand(total_weeks); zs[week] is the z-score drawn for the week.
generate_phased_demand(total_weeks, zs) ==
    [week \in 1..total_weeks |-> Max0(PyInt(PhaseDraw(week, zs[week])))]

\* The random.gauss calls of one generate_phased_demand(total_weeks): for each
\* week the arguments and the value drawn (in tenths).
GaussCalls(total_weeks, zs) ==
    [week \in 1..total_weeks |->
        [mu |-> PhaseParams(week).mu, sigma |-> PhaseParams(week).sigma,
         x10 |-> PhaseDraw(week, zs[week])]]

\* A stream of draws with one z-score per market phase.
PhaseStream(a, b, c) ==
    [week \in 1..TOTAL_ROUNDS |->
        IF week <= 5 THEN a ELSE IF week <= 12 THEN b ELSE c]

\* The streams of draws considered: every combination of ZScores, the stream
\* that makes every week's demand 12 (draws 12.0, 12.0, 12.0), and one with
\* the draws 11.6, 38.5 and -0.6.
ZSeqs ==
    { PhaseStream(a, b, c) : a \in ZScores, b \in ZScores, c \in ZScores }
    \cup { PhaseStream(0, -40, 20), PhaseStream(-2, 13, -43) }

\* ---------------------------------------------------------------- session state

\* The session state, and two things outside it: `draws`, the random.gauss
\* calls made by the generate_phased_demand that produced demand_scenario, and
\* `report`, the post-mortem analysis computed by the latest run of the
\* game-over branch in this playthrough (NoReport before the first).
VARIABLES round, inventory, backorders, total_cost, order_pipeline,
          demand_scenario, last_order, history, game_over, draws, report

vars == <<round, inventory, backorders, total_cost, order_pipeline,
          demand_scenario, last_order, history, game_over, draws, report>>

\* The variables of st.session_state.
session == <<round, inventory, backorders, total_cost, order_pipeline,
             demand_scenario, last_order, history, game_over>>

NoReport == [shown |-> FALSE]

\* The empty history dict of initialize_game.
EmptyHistory ==
    [Week |-> <<>>, Demand |-> <<>>, Player_Orders |-> <<>>,
     Inventory |-> <<>>, Backorders |-> <<>>, Cost_This_Week |-> <<>>]

\* State after the first run of the script: 'round' is not in the session
\* state, so initialize_game() runs (and regenerates the demand scenario).
Init ==
    /\ round = 1
    /\ inventory = INITIAL_INVENTORY
    /\ backorders = 0
    /\ total_cost = 0
    /\ order_pipeline = INITIAL_PIPELINE
    /\ \E zs \in ZSeqs :
          /\ draws = GaussCalls(TOTAL_ROUNDS, zs)
          /\ demand_scenario = generate_phased_demand(TOTAL_ROUNDS, zs)
    /\ last_order = INITIAL_LAST_ORDER
    /\ history = EmptyHistory
    /\ game_over = FALSE
    /\ report = NoReport

\* initialize_game() as a state change (the restart button).
initialize_game(zs) ==
    /\ round' = 1
    /\ inventory' = INITIAL_INVENTORY
    /\ backorders' = 0
    /\ total_cost' = 0
    /\ order_pipeline' = INITIAL_PIPELINE
    /\ draws' = GaussCalls(TOTAL_ROUNDS, zs)
    /\ demand_scenario' = generate_phased_demand(TOTAL_ROUNDS, zs)
    /\ last_order' = INITIAL_LAST_ORDER
    /\ history' = EmptyHistory
    /\ game_over' = FALSE

\* ---------------------------------------------------------------- post-mortem analysis

\* Exact fractions num/den (num >= 0, den > 0) in lowest terms stand for the
\* floats of the analysis; float rounding is not modelled.
gcd[a \in Nat, b \in Nat] == IF b = 0 THEN a ELSE gcd[b, a % b]

GCD(a, b) == gcd[a, b]

Rat(num, den) ==
    LET g == GCD(num, den) IN [num |-> num \div g, den |-> den \div g]

\* p / q for q > 0, cancelling before multiplying.
RatDiv(p, q) ==
    LET g1 == GCD(p.num, q.num)
        g2 == GCD(p.den, q.den)
    IN  [num |-> (p.num \div g1) * (q.den \div g2),
         den |-> (p.den \div g2) * (q.num \div g1)]

\* p > a / b
RatGt(p, a, b) == p.num * b > a * p.den

RECURSIVE SumSeq(_)
SumSeq(s) == IF s = <<>> THEN 0 ELSE Head(s) + SumSeq(Tail(s))

RECURSIVE SumSquares(_)
SumSquares(s) == IF s = <<>> THEN 0 ELSE Head(s) * Head(s) + SumSquares(Tail(s))

\* What Series.var() gives for fewer than two values.
NaN == [nan |-> TRUE]

\* Series.var(): the sample variance (ddof = 1) of a column,
\* sum((x - mean)^2) / (n - 1) = (n * sum(x^2) - sum(x)^2) / (n * (n - 1)).
SeriesVar(column) ==
    LET n == Len(column)
    IN  IF n < 2 THEN NaN
        ELSE Rat(n * SumSquares(column) - SumSeq(column) * SumSeq(column),
                 n * (n - 1))

\* demand_var > 0 (False for NaN)
IsPositive(v) == v # NaN /\ v.num > 0

\* Variant: demand variance over order variance.
BweIndexInverted(order_var, demand_var) ==
    IF IsPositive(demand_var) /\ IsPositive(order_var)
    THEN RatDiv(demand_var, order_var) ELSE Rat(1, 1)

\* bwe_index = order_var / demand_var if demand_var > 0 else 1
BweIndex(order_var, demand_var) ==
    IF IsPositive(demand_var) THEN RatDiv(order_var, demand_var) ELSE Rat(1, 1)

\* if bwe_index > 1.2: "Severe Bullwhip Effect Detected!"
IsSevere(bwe_index) == RatGt(bwe_index, 12, 10)

\* What the game-over branch puts on the page for the history h.
PostMortem(h, cost) ==
    LET demand_var == SeriesVar(h.Demand)
        order_var == SeriesVar(h.Player_Orders)
        bwe_index == BweIndex(order_var, demand_var)
    IN  [shown |-> TRUE, total_cost |-> cost, bwe_index |-> bwe_index,
         severe |-> IsSevere(bwe_index)]

\* Variant: the Week column is moved out of the stored history to index the table.
HistoryAfterRenderIndexed(h) == [h EXCEPT !.Week = <<>>]

\* st.session_state.history after the game-over branch ran: the branch only
\* reads it (pd.DataFrame(...) copies the columns, set_index returns a new frame).
HistoryAfterRender(h) == h

\* ---------------------------------------------------------------- weekly transition

\* Variant: the backorders are added instead of subtracted.
NewNetInventoryPlus(inv, bo, received, demand) == (inv + bo + received) - demand

\* net_inventory - current_demand
NewNetInventory(inv, bo, received, demand) == (inv - bo + received) - demand

\* Variant: the net position is stored without the `> 0` branch.
NewInventoryUnclamped(n) == n

NewInventory(n) == IF n > 0 THEN n ELSE 0

\* Variant: abs(new_net_inventory) taken in both branches.
NewBackordersAbs(n) == IF n < 0 THEN -n ELSE n

\* abs(new_net_inventory) in the else branch
NewBackorders(n) == IF n > 0 THEN 0 ELSE (IF n < 0 THEN -n ELSE n)

\* Variant: the two unit costs swapped.
CostThisWeekSwapped(new_inventory, new_backorders) ==
    (new_inventory * BACKORDER_COST) + (new_backorders * HOLDING_COST)

CostThisWeek(new_inventory, new_backorders) ==
    (new_inventory * HOLDING_COST) + (new_backorders * BACKORDER_COST)

\* Variant: pop() takes the newest element instead of the oldest.
ReceivedLast(pipeline) == pipeline[Len(pipeline)]

\* order_pipeline.pop(0)
Received(pipeline) == Head(pipeline)

\* Variant: the order is appended without removing the delivery.
AdvancePipelineNoPop(pipeline, order_amount) == Append(pipeline, order_amount)

\* the pipeline after pop(0) and append(order_amount)
AdvancePipeline(pipeline, order_amount) == Append(Tail(pipeline), order_amount)

\* Variant: `=` instead of `+=`.
AddCostAssign(total, cost_this_week) == cost_this_week

\* total_cost += cost_this_week
AddCost(total, cost_this_week) == total + cost_this_week

\* Variant: the week recorded is the counter after its increment.
AppendRecordNextWeek(h, week, demand, order_amount, inv, bo, cost) ==
    [Week           |-> Append(h.Week, week + 1),
     Demand         |-> Append(h.Demand, demand),
     Player_Orders  |-> Append(h.Player_Orders, order_amount),
     Inventory      |-> Append(h.Inventory, inv),
     Backorders     |-> Append(h.Backorders, bo),
     Cost_This_Week |-> Append(h.Cost_This_Week, cost)]

\* the six appends to the history columns
AppendRecord(h, week, demand, order_amount, inv, bo, cost) ==
    [Week           |-> Append(h.Week, week),
     Demand         |-> Append(h.Demand, demand),
     Player_Orders  |-> Append(h.Player_Orders, order_amount),
     Inventory      |-> Append(h.Inventory, inv),
     Backorders     |-> Append(h.Backorders, bo),
     Cost_This_Week |-> Append(h.Cost_This_Week, cost)]

\* Variant: `>` instead of `>=`.
IsLastRoundLate(current_week) == current_week > TOTAL_ROUNDS

\* Variant: the game ends one round early.
IsLastRoundEarly(current_week) == current_week >= TOTAL_ROUNDS - 1

\* if current_week >= TOTAL_ROUNDS
IsLastRound(current_week) == current_week >= TOTAL_ROUNDS

\* Variant: the form is rendered on the game-over screen too.
FormRenderedAlways == TRUE

\* The form is rendered only in the else branch of `if game_over`, and
\* st.number_input raises when its default value (last_order) is outside
\* [min_value, max_value], which ends the run before the submit button.
FormRendered ==
    ~game_over /\ MIN_ORDER <= last_order /\ last_order <= MAX_ORDER

\* Variant: the demand of the week before (index current_week - 2).
CurrentDemandPrevious(scenario, current_week) ==
    scenario[IF current_week > 1 THEN current_week - 1 ELSE 1]

\* demand_scenario[current_week - 1], the list being 0-indexed
CurrentDemand(scenario, current_week) == scenario[current_week]

\* Variant: the round counter is not advanced.
NextRoundStuck(r) == r

\* st.session_state.round += 1
NextRound(r) == r + 1

\* The run of the script in which the form is submitted: the body of
\* `if submitted:` for the submitted order_amount, up to st.rerun().
SubmitOrder(order_amount) ==
    /\ FormRendered
    /\ LET current_week == round
           current_demand == CurrentDemand(demand_scenario, current_week)
           received == Received(order_pipeline)
           new_net_inventory ==
               NewNetInventory(inventory, backorders, received, current_demand)
           new_inventory == NewInventory(new_net_inventory)
           new_backorders == NewBackorders(new_net_inventory)
           cost_this_week == CostThisWeek(new_inventory, new_backorders)
       IN  /\ order_pipeline' = AdvancePipeline(order_pipeline, order_amount)
           /\ history' = AppendRecord(history, current_week, current_demand,
                                      order_amount, inventory, backorders,
                                      cost_this_week)
           /\ inventory' = new_inventory
           /\ backorders' = new_backorders
           /\ total_cost' = AddCost(total_cost, cost_this_week)
           /\ last_order' = order_amount
           /\ IF IsLastRound(current_week)
                 THEN game_over' = TRUE /\ round' = round
                 ELSE game_over' = FALSE /\ round' = NextRound(round)
           /\ UNCHANGED <<demand_scenario, draws, report>>

\* ---------------------------------------------------------------- the player

\* Number of rounds so far in which the order differs from the form's default.
OrderChanges(orders) ==
    Cardinality({i \in 1..Len(orders) :
        orders[i] # (IF i = 1 THEN INITIAL_LAST_ORDER ELSE orders[i - 1])})

\* What the player may submit out of `samples`: the default, or a typed sample.
Choices(samples) ==
    {last_order} \cup
    (IF OrderChanges(history.Player_Orders) < MaxOrderChanges THEN samples ELSE {})

\* What st.number_input lets through.
WidgetOrders == {o \in OrderSamples : MIN_ORDER <= o /\ o <= MAX_ORDER}

\* "Place Order & Advance Week" with a quantity the widget admits.
PlaceOrder == \E order_amount \in Choices(WidgetOrders) : SubmitOrder(order_amount)

\* Variant: the restart button is on the dashboard too.
RestartButtonRenderedAlways == TRUE

\* The restart button is rendered in the game-over branch only.
RestartButtonRendered == game_over

\* The run of the script in which "Restart Simulation (New Market Scenario)",
\* on the game-over screen, is clicked.
Restart ==
    /\ RestartButtonRendered
    /\ \E zs \in ZSeqs : initialize_game(zs)
    /\ report' = NoReport

\* A run of the script while the game is over, such as the rerun after the
\* last submission: the game-over branch without a click on the button.
GameOverScreen ==
    /\ game_over
    /\ report' = PostMortem(history, total_cost)
    /\ history' = HistoryAfterRender(history)
    /\ UNCHANGED <<round, inventory, backorders, total_cost, order_pipeline,
                   demand_scenario, last_order, game_over, draws>>

Next == PlaceOrder \/ Restart \/ GameOverScreen

Spec == Init /\ [][Next]_vars

\* One playthrough (its initial states are also the states after a restart)
\* by a player who keeps playing: a rendered form is eventually submitted.
NextLive == PlaceOrder \/ GameOverScreen

SpecLive == Init /\ [][NextLive]_vars /\ WF_vars(PlaceOrder)

\* The submit handler driven directly, without the widget's range check.
PlaceOrderCore == \E order_amount \in Choices(OrderSamples) : SubmitOrder(order_amount)

NextCore == PlaceOrderCore \/ Restart \/ GameOverScreen

SpecCore == Init /\ [][NextCore]_vars

\* ---------------------------------------------------------------- properties

\* Number of records in the history.
Rounds == Len(history.Week)

\* A step that appends a record: a weekly submission.
Submission == Len(history'.Week) = Len(history.Week) + 1

\* C1: in every reachable state at most one of inventory and backorders is
\* nonzero.
MutualExclusion == inventory = 0 \/ backorders = 0

\* A week has been played and left unmet demand.
MutualExclusionWitness == Rounds > 0 /\ backorders > 0 /\ inventory = 0

\* C2: a weekly submission computes n = inventory - backorders + received -
\* demand, sets the ledger to (n, 0) if n > 0 and to (0, -n) otherwise, and
\* records the cost new_inventory * holding_cost + new_backorders * backorder_cost.
WeekTransition ==
    [][Submission =>
        LET n == inventory - backorders + order_pipeline[1] - demand_scenario[round]
        IN  /\ inventory' = (IF n > 0 THEN n ELSE 0)
            /\ backorders' = (IF n > 0 THEN 0 ELSE -n)
            /\ history'.Cost_This_Week[Len(history'.Cost_This_Week)]
                 = inventory' * HOLDING_COST + backorders' * BACKORDER_COST]_vars

\* Both branches have been taken: a week that ended with stock on hand and a
\* later one that ended with backorders, each with its cost recorded.
WeekTransitionWitness ==
    /\ Rounds >= 2
    /\ backorders > 0
    /\ history.Cost_This_Week[Rounds] = backorders * BACKORDER_COST
    /\ \E i \in 1..(Rounds - 1) :
          history.Inventory[i + 1] > 0
          /\ history.Cost_This_Week[i] = history.Inventory[i + 1] * HOLDING_COST

\* C3: every history record holds the inventory and backorders after its week's
\* transition: the values its cost was computed from, and for the latest record
\* the values the ledger holds.
HistoryStoresPostTransition ==
    /\ \A i \in 1..Rounds :
          history.Cost_This_Week[i] =
              history.Inventory[i] * HOLDING_COST
              + history.Backorders[i] * BACKORDER_COST
    /\ Rounds > 0 =>
          /\ history.Inventory[Rounds] = inventory
          /\ history.Backorders[Rounds] = backorders

\* C4: total_cost is the sum of the recorded weekly costs, and a weekly
\* submission never decreases it.
TotalCostIsRunningSum ==
    /\ [](total_cost = SumSeq(history.Cost_This_Week))
    /\ [][Submission => total_cost' >= total_cost]_vars

\* Several weeks with a cost have been accumulated.
TotalCostWitness ==
    /\ Rounds >= 3
    /\ \A i \in 1..Rounds : history.Cost_This_Week[i] > 0
    /\ total_cost > history.Cost_This_Week[Rounds]

\* C5: the pipeline always holds LEAD_TIME quantities; a weekly submission
\* removes the front element and appends the new order, and the only other
\* step that touches the pipeline is the restart, which installs a fresh one.
PipelineLengthConstant ==
    /\ [](Len(order_pipeline) = LEAD_TIME)
    /\ [][/\ Submission =>
               order_pipeline' =
                   Tail(order_pipeline)
                   \o <<history'.Player_Orders[Len(history'.Player_Orders)]>>
          /\ order_pipeline' # order_pipeline =>
               Submission \/ (game_over /\ ~game_over')]_vars

\* The pipeline has been cycled more than LEAD_TIME times with typed orders.
PipelineLengthWitness ==
    /\ Rounds > LEAD_TIME
    /\ order_pipeline # INITIAL_PIPELINE
    /\ order_pipeline[LEAD_TIME] # order_pipeline[1]

\* The quantity due in round r: the initial pipeline for the first LEAD_TIME
\* rounds, afterwards the order of round r - LEAD_TIME.
Due(r) ==
    IF r <= LEAD_TIME THEN INITIAL_PIPELINE[r]
    ELSE history.Player_Orders[r - LEAD_TIME]

\* C6: the quantity received in round r is the order of round r - LEAD_TIME
\* (the initial pipeline for r <= LEAD_TIME), and the pending quantities are
\* the orders not yet due, oldest first.
FifoLeadTime ==
    /\ [](\A k \in 1..Len(order_pipeline) : order_pipeline[k] = Due(Rounds + k))
    /\ [][Submission =>
            inventory' - backorders' =
                inventory - backorders + Due(round) - demand_scenario[round]]_vars

\* The order typed in round 1 arrived in round 1 + LEAD_TIME and not before.
FifoLeadTimeWitness ==
    /\ Rounds = LEAD_TIME + 1
    /\ history.Player_Orders[1] = MAX_ORDER
    /\ history.Inventory[Rounds] < MAX_ORDER
    /\ inventory >= MAX_ORDER

\* Rounds completed according to the round counter.
RoundsCompleted == IF game_over THEN round ELSE round - 1

\* C7: every history column has as many entries as rounds were completed, and
\* the session is over exactly when that number is TOTAL_ROUNDS.
HistoryLength ==
    /\ Len(history.Week) = RoundsCompleted
    /\ Len(history.Demand) = RoundsCompleted
    /\ Len(history.Player_Orders) = RoundsCompleted
    /\ Len(history.Inventory) = RoundsCompleted
    /\ Len(history.Backorders) = RoundsCompleted
    /\ Len(history.Cost_This_Week) = RoundsCompleted
    /\ game_over <=> (Rounds = TOTAL_ROUNDS)

\* The final round has been played.
HistoryLengthWitness == game_over /\ Rounds = TOTAL_ROUNDS

\* C8: a submission of a negative order changes neither the round counter,
\* the history, the ledger nor the pipeline.
NegativeOrderRejected ==
    [][(\E order_amount \in OrderSamples :
            order_amount < 0 /\ SubmitOrder(order_amount))
        => UNCHANGED <<round, history, inventory, backorders, total_cost,
                       order_pipeline>>]_vars

\* C9: once the game is over no order is processed: round, ledger, pipeline
\* and history stay as they are until the restart replaces them.
TerminalSessionFrozen ==
    [][game_over =>
        \/ UNCHANGED <<round, inventory, backorders, total_cost,
                       order_pipeline, history, game_over>>
        \/ (~game_over' /\ round' = 1 /\ history' = EmptyHistory)]_vars

\* A finished game whose ledger and history hold the played weeks.
TerminalSessionWitness ==
    game_over /\ round = TOTAL_ROUNDS /\ Rounds = TOTAL_ROUNDS /\ total_cost > 0

\* C10: inventory, backorders and total cost are never negative, and every
\* pending quantity lies within the order widget's range.
NonNegativeLedger ==
    /\ inventory >= 0
    /\ backorders >= 0
    /\ total_cost >= 0
    /\ \A k \in 1..Len(order_pipeline) :
          /\ order_pipeline[k] \in Int
          /\ MIN_ORDER <= order_pipeline[k]
          /\ order_pipeline[k] <= MAX_ORDER

\* Backorders are owed while both ends of the order range are in transit.
NonNegativeLedgerWitness ==
    /\ backorders > 0
    /\ \E j, k \in 1..Len(order_pipeline) :
          order_pipeline[j] = MIN_ORDER /\ order_pipeline[k] = MAX_ORDER

\* sum((n * x - sum(x))^2) over the column: n^2 * (n - 1) times its sample
\* variance, n^2 * n times its population variance.
SqDev(column) ==
    LET n == Len(column)
        total == SumSeq(column)
    IN  SumSeq([i \in 1..n |-> (n * column[i] - total) * (n * column[i] - total)])

\* C11: the index on the game-over page is var(Player_Orders) / var(Demand)
\* (sample variances) when the demand variance is positive and 1 when it is
\* zero, and the page reports a severe bullwhip effect exactly when the index
\* exceeds 1.2.
BullwhipIndex ==
    report.shown =>
        LET order_dev == SqDev(history.Player_Orders)
            demand_dev == SqDev(history.Demand)
        IN  /\ Len(history.Demand) >= 2
            /\ demand_dev > 0 => report.bwe_index = Rat(order_dev, demand_dev)
            /\ demand_dev = 0 => report.bwe_index = [num |-> 1, den |-> 1]
            /\ report.severe <=>
                   10 * report.bwe_index.num > 12 * report.bwe_index.den

\* A finished game with varying demand whose orders varied more: the page
\* shows a ratio above 1.2 and reports the bullwhip effect.
BullwhipIndexWitness ==
    /\ report.shown
    /\ SqDev(history.Demand) > 0
    /\ report.bwe_index.den > 1
    /\ report.severe

\* C12: the generated demand scenario has exactly TOTAL_ROUNDS values, one per
\* draw, and every value is a non-negative integer, negative draws included.
DemandNonNegative ==
    /\ Len(draws) = TOTAL_ROUNDS
    /\ Len(demand_scenario) = TOTAL_ROUNDS
    /\ \A week \in 1..Len(demand_scenario) : demand_scenario[week] \in Nat

\* A scenario generated from a draw of -1.0 or less, which int() leaves negative.
DemandNonNegativeWitness ==
    \E week \in 1..Len(draws) :
        draws[week].x10 <= -10 /\ demand_scenario[week] = 0

\* The phase of a week and the distribution the claim gives it.
ClaimedParams(week) ==
    IF week <= 5 THEN [mu |-> 12, sigma |-> 2]
    ELSE IF week <= 12 THEN [mu |-> 32, sigma |-> 5]
    ELSE [mu |-> 8, sigma |-> 2]

\* The draws were made with the claimed parameters.
DrawnFromPhases ==
    \A week \in 1..Len(draws) :
        /\ draws[week].mu = ClaimedParams(week).mu
        /\ draws[week].sigma = ClaimedParams(week).sigma

\* C18 as stated: each weekly demand is the draw rounded to the nearest
\* integer, floored at 0 (11.6 gives 12), drawn with the phase's parameters.
DemandRoundedToNearest ==
    /\ DrawnFromPhases
    /\ \A week \in 1..Len(draws) :
          LET x == draws[week].x10
              d == demand_scenario[week]
          IN  IF x < 5 THEN d = 0
              ELSE 10 * d - 5 <= x /\ x <= 10 * d + 5

\* C18 as amended: each weekly demand is the draw truncated toward zero,
\* floored at 0 (11.6 gives 11, -0.6 gives 0), drawn with the phase's parameters.
DemandTruncated ==
    /\ DrawnFromPhases
    /\ \A week \in 1..Len(draws) :
          LET x == draws[week].x10
              d == demand_scenario[week]
          IN  IF x < 10 THEN d = 0
              ELSE 10 * d <= x /\ x < 10 * d + 10

\* The scenario generated from draws of 11.6 in the first phase and -0.6 in
\* the last: the demands are 11 and 0.
DemandTruncatedWitness ==
    /\ \E week \in 1..5 :
          draws[week].x10 = 116 /\ demand_scenario[week] = 11
    /\ \E week \in 13..TOTAL_ROUNDS :
          draws[week].x10 = -6 /\ demand_scenario[week] = 0

\* C13: the post-mortem analysis is query-only and repeatable: while the game
\* stays over, rendering the page again shows the same total cost and index,
\* and leaves history, ledger, pipeline, round and game_over as they were.
AnalysisQueryOnly ==
    [][game_over /\ game_over' =>
          /\ report'.shown
          /\ report.shown => report' = report
          /\ UNCHANGED <<history, inventory, backorders, total_cost,
                         order_pipeline, round, game_over>>]_vars

\* The game-over page with its analysis of a full history.
AnalysisQueryOnlyWitness ==
    /\ game_over
    /\ report.shown
    /\ report.total_cost = total_cost
    /\ Len(history.Week) = TOTAL_ROUNDS
    /\ report.bwe_index.num > 0

\* C14 as stated: the session is over exactly in the states where the round
\* counter exceeds TOTAL_ROUNDS, and while in progress the counter is within
\* 1..TOTAL_ROUNDS.
GameOverIffRoundExceeds ==
    /\ game_over <=> (round > TOTAL_ROUNDS)
    /\ ~game_over => (1 <= round /\ round <= TOTAL_ROUNDS)

\* C14 as amended: the round counter never exceeds TOTAL_ROUNDS; the session
\* is over exactly when the submission of round TOTAL_ROUNDS has been
\* processed, the counter then staying at TOTAL_ROUNDS; while in progress the
\* counter is within 1..TOTAL_ROUNDS, so demand_scenario[round - 1] exists.
RoundWithinScenario ==
    /\ 1 <= round /\ round <= TOTAL_ROUNDS
    /\ round \in DOMAIN demand_scenario
    /\ game_over => (round = TOTAL_ROUNDS /\ history.Week[Rounds] = TOTAL_ROUNDS)
    /\ ~game_over => (\A i \in 1..Rounds : history.Week[i] < round)

\* The game is over and the counter still names the last round.
RoundWithinScenarioWitness ==
    game_over /\ round = TOTAL_ROUNDS /\ Rounds > 0 /\ history.Week[Rounds] = round

\* C15: the history is an append-only log: a weekly submission appends one
\* record and keeps the earlier ones; record i has Week i, the demand of week
\* i and the order submitted in round i; only the restart empties the log.
HistoryAppendOnly ==
    /\ [](\A i \in 1..Rounds :
             /\ history.Week[i] = i
             /\ history.Demand[i] = demand_scenario[i])
    /\ [][history' # history =>
            \/ /\ ~game_over
               /\ history'.Week = Append(history.Week, round)
               /\ history'.Demand = Append(history.Demand, demand_scenario[round])
               /\ history'.Player_Orders = Append(history.Player_Orders, last_order')
               /\ SubSeq(history'.Inventory, 1, Rounds) = history.Inventory
               /\ SubSeq(history'.Backorders, 1, Rounds) = history.Backorders
               /\ SubSeq(history'.Cost_This_Week, 1, Rounds) = history.Cost_This_Week
               /\ Len(history'.Inventory) = Rounds + 1
               /\ Len(history'.Backorders) = Rounds + 1
               /\ Len(history'.Cost_This_Week) = Rounds + 1
            \/ /\ game_over /\ ~game_over'
               /\ history' = EmptyHistory]_vars

\* A log of several rounds with different orders and demands.
HistoryAppendOnlyWitness ==
    /\ Rounds >= 7
    /\ history.Week[Rounds] = Rounds
    /\ history.Player_Orders[1] # history.Player_Orders[Rounds]
    /\ history.Demand[1] # history.Demand[Rounds]

\* C16: if the player keeps submitting, every playthrough reaches game over;
\* a submission in a round r < TOTAL_ROUNDS leaves the session in progress in
\* round r + 1, and the submission of round TOTAL_ROUNDS ends the game with
\* TOTAL_ROUNDS records.
EventuallyGameOver ==
    /\ (~game_over) ~> game_over
    /\ [][Submission =>
            IF round < TOTAL_ROUNDS
            THEN ~game_over' /\ round' = round + 1
            ELSE game_over' /\ Len(history'.Week) = TOTAL_ROUNDS]_vars

\* The game ended by the twentieth submission.
EventuallyGameOverWitness ==
    /\ game_over
    /\ Rounds = TOTAL_ROUNDS
    /\ \A i \in 1..Rounds : history.Week[i] = i

\* C17: within a playthrough the demand scenario is fixed: a submission leaves
\* it unchanged and applies and records the demand of its round; only the
\* restart replaces it, by another scenario of TOTAL_ROUNDS weeks.
DemandScenarioFixed ==
    /\ [](Len(demand_scenario) = TOTAL_ROUNDS)
    /\ [][Submission =>
            /\ demand_scenario' = demand_scenario
            /\ history'.Demand[Len(history'.Demand)] = demand_scenario[round]
            /\ inventory' - backorders' =
                 inventory - backorders + order_pipeline[1]
                 - demand_scenario[round]]_vars
    /\ [][demand_scenario' # demand_scenario =>
            game_over /\ ~game_over' /\ history' = EmptyHistory]_vars

\* A game past a phase change: the demands recorded are those of the scenario.
DemandScenarioFixedWitness ==
    /\ Rounds >= 6
    /\ history.Demand = SubSeq(demand_scenario, 1, Rounds)
    /\ history.Demand[6] # history.Demand[5]

\* C19: no unit is created or lost: net stock plus the pipeline equals the
\* initial stock and pipeline plus all orders minus all demand served.
UnitConservation ==
    inventory - backorders + SumSeq(order_pipeline)
        = INITIAL_INVENTORY + SumSeq(INITIAL_PIPELINE)
          + SumSeq(history.Player_Orders) - SumSeq(history.Demand)

\* Typed orders have arrived and demand has outrun supply.
UnitConservationWitness ==
    /\ Rounds > LEAD_TIME
    /\ history.Player_Orders[1] # INITIAL_LAST_ORDER
    /\ backorders > 0
    /\ \E i \in 1..Rounds : history.Backorders[i] > 0

\* C20: the session is reset only from game over, and the reset restores the
\* initial state whatever the finished game was, with a new scenario of
\* TOTAL_ROUNDS weeks.
RestartRestoresInitialState ==
    [][(round' < round \/ (history' = EmptyHistory /\ history # EmptyHistory)
        \/ (~game_over' /\ game_over) \/ demand_scenario' # demand_scenario) =>
          /\ game_over
          /\ round' = 1
          /\ inventory' = 40
          /\ backorders' = 0
          /\ total_cost' = 0
          /\ order_pipeline' = <<12, 12, 12>>
          /\ last_order' = 12
          /\ history' = EmptyHistory
          /\ game_over' = FALSE
          /\ Len(demand_scenario') = TOTAL_ROUNDS]_vars

\* A finished game, far from the initial state, on whose page the restart
\* button is.
RestartWitness ==
    /\ game_over
    /\ report.shown
    /\ round = TOTAL_ROUNDS
    /\ inventory # INITIAL_INVENTORY
    /\ total_cost > 0
    /\ order_pipeline # INITIAL_PIPELINE
    /\ last_order # INITIAL_LAST_ORDER

====
